---------------------------- MODULE Spec2Model ----------------------------
(***************************************************************************)
(* Integrity-checked S3 transfer: the upload / download / list / verify    *)
(* operations of services/s3_services.py (class S3FileService), of the     *)
(* stand-alone scripts scripts/upload_file_to_s3.py and                    *)
(* scripts/download_file_from_s3.py, and the entry points that chain them. *)
(*                                                                         *)
(* A file is a sequence of bytes (0..255).  A digest is the 32-character   *)
(* lowercase hexadecimal string hashlib.md5 produces; the hash is computed *)
(* as MD5 computes it (RFC 1321), on 32-bit words kept as two 16-bit       *)
(* halves <<hi, lo>>.                                                      *)
(***************************************************************************)
EXTENDS Integers, Sequences, FiniteSets, TLC

(***************************************************************************)
(* 32-bit word arithmetic                                                  *)
(***************************************************************************)
Half == 65536

\* the bitwise AND of two 4-bit numbers: And4[a + 1][b + 1]
And4 ==
    << << 0,  0,  0,  0,  0,  0,  0,  0,  0,  0,  0,  0,  0,  0,  0,  0>>,
       << 0,  1,  0,  1,  0,  1,  0,  1,  0,  1,  0,  1,  0,  1,  0,  1>>,
       << 0,  0,  2,  2,  0,  0,  2,  2,  0,  0,  2,  2,  0,  0,  2,  2>>,
       << 0,  1,  2,  3,  0,  1,  2,  3,  0,  1,  2,  3,  0,  1,  2,  3>>,
       << 0,  0,  0,  0,  4,  4,  4,  4,  0,  0,  0,  0,  4,  4,  4,  4>>,
       << 0,  1,  0,  1,  4,  5,  4,  5,  0,  1,  0,  1,  4,  5,  4,  5>>,
       << 0,  0,  2,  2,  4,  4,  6,  6,  0,  0,  2,  2,  4,  4,  6,  6>>,
       << 0,  1,  2,  3,  4,  5,  6,  7,  0,  1,  2,  3,  4,  5,  6,  7>>,
       << 0,  0,  0,  0,  0,  0,  0,  0,  8,  8,  8,  8,  8,  8,  8,  8>>,
       << 0,  1,  0,  1,  0,  1,  0,  1,  8,  9,  8,  9,  8,  9,  8,  9>>,
       << 0,  0,  2,  2,  0,  0,  2,  2,  8,  8, 10, 10,  8,  8, 10, 10>>,
       << 0,  1,  2,  3,  0,  1,  2,  3,  8,  9, 10, 11,  8,  9, 10, 11>>,
       << 0,  0,  0,  0,  4,  4,  4,  4,  8,  8,  8,  8, 12, 12, 12, 12>>,
       << 0,  1,  0,  1,  4,  5,  4,  5,  8,  9,  8,  9, 12, 13, 12, 13>>,
       << 0,  0,  2,  2,  4,  4,  6,  6,  8,  8, 10, 10, 12, 12, 14, 14>>,
       << 0,  1,  2,  3,  4,  5,  6,  7,  8,  9, 10, 11, 12, 13, 14, 15>> >>

\* the bitwise AND of two 16-bit numbers, four bits at a time
BitAnd(a, b) ==
    And4[(a % 16) + 1][(b % 16) + 1]
    + 16 * And4[((a \div 16) % 16) + 1][((b \div 16) % 16) + 1]
    + 256 * And4[((a \div 256) % 16) + 1][((b \div 256) % 16) + 1]
    + 4096 * And4[(a \div 4096) + 1][(b \div 4096) + 1]

W_and(x, y) == <<BitAnd(x[1], y[1]), BitAnd(x[2], y[2])>>
W_or(x, y)  == <<x[1] + y[1] - BitAnd(x[1], y[1]), x[2] + y[2] - BitAnd(x[2], y[2])>>
W_xor(x, y) == <<x[1] + y[1] - 2 * BitAnd(x[1], y[1]), x[2] + y[2] - 2 * BitAnd(x[2], y[2])>>
W_not(x)    == <<Half - 1 - x[1], Half - 1 - x[2]>>

W_add(x, y) ==
    LET lo == x[2] + y[2]
        hi == x[1] + y[1] + (lo \div Half)
    IN  <<hi % Half, lo % Half>>

\* 2^n, n = 0..16
Pow2(n) ==
    <<1, 2, 4, 8, 16, 32, 64, 128, 256, 512, 1024, 2048, 4096, 8192, 16384, 32768,
      65536>>[n + 1]

\* rotate left by s, 0 <= s < 16
W_rotl_low(x, s) ==
    LET p == Pow2(s)
        q == Pow2(16 - s)
    IN  <<((x[1] * p) % Half) + (x[2] \div q), ((x[2] * p) % Half) + (x[1] \div q)>>

W_rotl(x, s) == IF s >= 16 THEN W_rotl_low(<<x[2], x[1]>>, s - 16) ELSE W_rotl_low(x, s)

(***************************************************************************)
(* hashlib.md5: the accumulator, update(chunk) and hexdigest()             *)
(***************************************************************************)
MD5_S ==
    <<7, 12, 17, 22, 7, 12, 17, 22, 7, 12, 17, 22, 7, 12, 17, 22,
      5,  9, 14, 20, 5,  9, 14, 20, 5,  9, 14, 20, 5,  9, 14, 20,
      4, 11, 16, 23, 4, 11, 16, 23, 4, 11, 16, 23, 4, 11, 16, 23,
      6, 10, 15, 21, 6, 10, 15, 21, 6, 10, 15, 21, 6, 10, 15, 21>>

\* floor(2^32 * abs(sin(i))), i = 1..64
MD5_K ==
    << <<55146, 42104>>, <<59591, 46934>>, <<9248, 28891>>, <<49597, 52974>>,
       <<62844, 4015>>, <<18311, 50730>>, <<43056, 17939>>, <<64838, 38145>>,
       <<27008, 39128>>, <<35652, 63407>>, <<65535, 23473>>, <<35164, 55230>>,
       <<27536, 4386>>, <<64920, 29075>>, <<42617, 17294>>, <<18868, 2081>>,
       <<63006, 9570>>, <<49216, 45888>>, <<9822, 23121>>, <<59830, 51114>>,
       <<54831, 4189>>, <<580, 5203>>, <<55457, 59009>>, <<59347, 64456>>,
       <<8673, 52710>>, <<49975, 2006>>, <<62677, 3463>>, <<17754, 5357>>,
       <<43491, 59653>>, <<64751, 41976>>, <<26479, 729>>, <<36138, 19594>>,
       <<65530, 14658>>, <<34673, 63105>>, <<28061, 24866>>, <<64997, 14348>>,
       <<42174, 59972>>, <<19422, 53161>>, <<63163, 19296>>, <<48831, 48240>>,
       <<10395, 32454>>, <<60065, 10234>>, <<54511, 12421>>, <<1160, 7429>>,
       <<55764, 53305>>, <<59099, 39397>>, <<8098, 31992>>, <<50348, 22117>>,
       <<62505, 8772>>, <<17194, 65431>>, <<43924, 9127>>, <<64659, 41017>>,
       <<25947, 22979>>, <<36620, 52370>>, <<65519, 62589>>, <<34180, 24017>>,
       <<28584, 32335>>, <<65068, 59104>>, <<41729, 17172>>, <<19976, 4513>>,
       <<63315, 32386>>, <<48442, 62005>>, <<10967, 53947>>, <<60294, 54161>> >>

\* 0x67452301, 0xefcdab89, 0x98badcfe, 0x10325476
MD5_IV == << <<26437, 8961>>, <<61389, 43913>>, <<39098, 56574>>, <<4146, 21622>> >>

BlockLen == 64

\* the i-th little-endian 32-bit word of a 64-byte block, i = 0..15
BlockWord(block, i) ==
    << block[4 * i + 3] + 256 * block[4 * i + 4],
       block[4 * i + 1] + 256 * block[4 * i + 2] >>

MD5_F(i, B, C, D) ==
    CASE i < 16 -> W_or(W_and(B, C), W_and(W_not(B), D))
      [] i < 32 -> W_or(W_and(D, B), W_and(W_not(D), C))
      [] i < 48 -> W_xor(W_xor(B, C), D)
      [] OTHER  -> W_xor(C, W_or(B, W_not(D)))

MD5_G(i) ==
    CASE i < 16 -> i
      [] i < 32 -> (5 * i + 1) % 16
      [] i < 48 -> (3 * i + 5) % 16
      [] OTHER  -> (7 * i) % 16

RECURSIVE MD5_Rounds(_, _)
\* the 64 steps of the compression function on one block; st = [i, a, b, c, d]
MD5_Rounds(st, block) ==
    IF st.i = 64 THEN st
    ELSE LET F == W_add(W_add(W_add(MD5_F(st.i, st.b, st.c, st.d), st.a), MD5_K[st.i + 1]),
                        BlockWord(block, MD5_G(st.i)))
         IN  MD5_Rounds([i |-> st.i + 1,
                         a |-> st.d,
                         b |-> W_add(st.b, W_rotl(F, MD5_S[st.i + 1])),
                         c |-> st.b,
                         d |-> st.c], block)

MD5_Compress(h, block) ==
    LET r == MD5_Rounds([i |-> 0, a |-> h[1], b |-> h[2], c |-> h[3], d |-> h[4]], block)
    IN  <<W_add(h[1], r.a), W_add(h[2], r.b), W_add(h[3], r.c), W_add(h[4], r.d)>>

\* hashlib.md5(): nothing hashed yet
hashlib_md5 == [h |-> MD5_IV, buf |-> <<>>, n |-> 0]

RECURSIVE MD5_Blocks(_)
\* while a whole 64-byte block is buffered, feed it through the compression
\* function; the tail shorter than a block stays buffered
MD5_Blocks(ctx) ==
    IF Len(ctx.buf) < BlockLen THEN ctx
    ELSE MD5_Blocks([h   |-> MD5_Compress(ctx.h, SubSeq(ctx.buf, 1, BlockLen)),
                     buf |-> SubSeq(ctx.buf, BlockLen + 1, Len(ctx.buf)),
                     n   |-> ctx.n])

\* hash_md5.update(chunk)
md5_update(ctx, chunk) ==
    MD5_Blocks([h |-> ctx.h, buf |-> ctx.buf \o chunk, n |-> ctx.n + Len(chunk)])

\* the 64-bit little-endian bit count of an n-byte message (n < 2^24)
MD5_LenBytes(n) ==
    LET bits == 8 * n
    IN  <<bits % 256, (bits \div 256) % 256, (bits \div 65536) % 256,
          (bits \div 16777216) % 256, 0, 0, 0, 0>>

MD5_Pad(ctx) ==
    LET used  == Len(ctx.buf) + 1
        zeros == IF used <= 56 THEN 56 - used ELSE 120 - used
    IN  ctx.buf \o <<128>> \o [k \in 1..zeros |-> 0] \o MD5_LenBytes(ctx.n)

HexDigit == <<"0", "1", "2", "3", "4", "5", "6", "7",
              "8", "9", "a", "b", "c", "d", "e", "f">>

HexByte(b) == HexDigit[(b \div 16) + 1] \o HexDigit[(b % 16) + 1]

\* a word's four bytes, least significant first, in lowercase hex
HexWord(w) ==
    HexByte(w[2] % 256) \o HexByte(w[2] \div 256) \o
    HexByte(w[1] % 256) \o HexByte(w[1] \div 256)

\* hash_md5.hexdigest()
md5_hexdigest(ctx) ==
    LET h == MD5_Blocks([h |-> ctx.h, buf |-> MD5_Pad(ctx), n |-> ctx.n]).h
    IN  HexWord(h[1]) \o HexWord(h[2]) \o HexWord(h[3]) \o HexWord(h[4])

(***************************************************************************)
(* calculate_md5: open the file, read it chunk by chunk until read()       *)
(* returns b'', feed each chunk to the accumulator, return hexdigest().    *)
(***************************************************************************)
ChunkSize == 4096

Min(a, b) == IF a <= b THEN a ELSE b

\* f.read(size) at offset pos of a file holding bytes
file_read(bytes, pos, size) == SubSeq(bytes, pos + 1, Min(pos + size, Len(bytes)))

\* variant: a read shorter than the chunk size is taken for the end of the file
read_step_short(bytes, st, size) ==
    LET chunk == file_read(bytes, st.pos, size)
    IN  IF Len(chunk) < size THEN [st EXCEPT !.eof = TRUE]
        ELSE [pos |-> st.pos + Len(chunk), ctx |-> md5_update(st.ctx, chunk), eof |-> FALSE]

\* one turn of  for chunk in iter(lambda: f.read(size), b''): hash_md5.update(chunk)
\* st = [pos: the file object's offset, ctx: the accumulator, eof: read() gave b'']
read_step(bytes, st, size) ==
    LET chunk == file_read(bytes, st.pos, size)
    IN  IF chunk = <<>> THEN [st EXCEPT !.eof = TRUE]
        ELSE [pos |-> st.pos + Len(chunk), ctx |-> md5_update(st.ctx, chunk), eof |-> FALSE]

RECURSIVE read_loop(_, _, _)
read_loop(bytes, st, size) ==
    IF st.eof THEN st.ctx ELSE read_loop(bytes, read_step(bytes, st, size), size)

\* open(file_path, 'rb') and a fresh hashlib.md5()
read_start == [pos |-> 0, ctx |-> hashlib_md5, eof |-> FALSE]

\* the digest of a file's bytes, read in chunks of the given size
md5_of_bytes(bytes, size) == md5_hexdigest(read_loop(bytes, read_start, size))

(***************************************************************************)
(* The world the operations act on                                         *)
(*                                                                         *)
(* A path and an object key are sequences of components ("raw/a.csv" is    *)
(* <<"raw", "a.csv">>).  The local file system fs maps each existing file  *)
(* to its bytes; the bucket maps each stored key to the object's data and  *)
(* its user metadata.  status is what the bucket answers: "ok", "404" (no  *)
(* such bucket), "403" (access denied) or "500" (any other error).         *)
(***************************************************************************)
Covid    == <<99, 111, 118, 105, 100, 44, 100, 97, 116, 97, 10, 49, 44, 50, 10>>
OneByte  == <<10>>

DataFile    == <<"data", "covid_data.csv">>
DownloadDir == <<"download">>
FlatKey     == <<"covid_data.csv">>
NestedKey   == <<"raw", "covid_data.csv">>

os_path_join(dir, name) == dir \o name
os_path_basename(path)  == <<path[Len(path)]>>

Paths == {DataFile, os_path_join(DownloadDir, FlatKey)}
Keys  == {FlatKey, NestedKey}
Ops   == {"upload", "download", "list", "verify"}

\* how many times other processes touch the files or the bucket during a run
MaxEnv == 1

VARIABLES
    prog,        \* the entry point that runs
    settings,    \* config.settings, or the constants of a script's main()
    pc,          \* where the entry point stands
    fs,          \* local files: path -> bytes
    status,      \* the bucket's answer to a call
    objects,     \* the bucket's objects: key -> [data, meta]
    local_md5,   \* local variable of upload_file_to_s3 and check__integrity
    hashed,      \* history: the bytes calculate_md5 read last
    pages,       \* the pages the paginator yields for this listing
    page_no,     \* how many of them the loop has consumed
    found,       \* local variable of list_files_in_s3_bucket
    out,         \* the messages logged or printed, in order
    calls,       \* the backend calls issued, in order
    ret,         \* per operation: "" (not finished), "returned", or the exception raised
    failed,      \* per operation: the call that failed inside it, "" when none did
    env,         \* environment events so far
    rd           \* the read loop of calculate_md5, run step by step (SpecDigest)

vars == <<prog, settings, pc, fs, status, objects, local_md5, hashed, pages, page_no,
          found, out, calls, ret, failed, env, rd>>

World ==
    [prog |-> prog, settings |-> settings, pc |-> pc, fs |-> fs, status |-> status,
     objects |-> objects, local_md5 |-> local_md5, hashed |-> hashed, pages |-> pages,
     page_no |-> page_no, found |-> found, out |-> out, calls |-> calls, ret |-> ret, failed |-> failed]

Becomes(w) ==
    /\ prog' = w.prog
    /\ settings' = w.settings
    /\ pc' = w.pc
    /\ fs' = w.fs
    /\ status' = w.status
    /\ objects' = w.objects
    /\ local_md5' = w.local_md5
    /\ hashed' = w.hashed
    /\ pages' = w.pages
    /\ page_no' = w.page_no
    /\ found' = w.found
    /\ out' = w.out
    /\ calls' = w.calls
    /\ ret' = w.ret
    /\ failed' = w.failed
    /\ UNCHANGED <<env, rd>>

(***************************************************************************)
(* The entry points: which operation follows which, and what an exception  *)
(* leaving an operation does (no main() catches anything).                 *)
(***************************************************************************)
StartPc(op) ==
    CASE op = "upload"   -> "upload:md5"
      [] op = "download" -> "download:head"
      [] op = "list"     -> "list:start"
      [] op = "verify"   -> "verify:md5"

\* scripts/s3_automation.py main: upload, download, list, verify
s3_automation_main(op) ==
    CASE op = "upload"   -> StartPc("download")
      [] op = "download" -> StartPc("list")
      [] op = "list"     -> StartPc("verify")
      [] op = "verify"   -> "done"

\* scripts/download_file_from_s3.py main: download, verify, list
download_script_main(op) ==
    CASE op = "download" -> StartPc("verify")
      [] op = "verify"   -> StartPc("list")
      [] OTHER           -> "done"

\* scripts/upload_file_to_s3.py main: upload
upload_script_main(op) == "done"

AfterOp(w, op) ==
    CASE w.prog = "s3_automation"   -> s3_automation_main(op)
      [] w.prog = "download_script" -> download_script_main(op)
      [] w.prog = "upload_script"   -> upload_script_main(op)

\* the path main() hands to check__integrity
verify_path(w) ==
    IF w.prog = "s3_automation" THEN w.settings.file_path
    ELSE os_path_join(w.settings.download_dir, w.settings.key)

Log(w, msg)          == [w EXCEPT !.out = Append(@, msg)]
Call(w, name)        == [w EXCEPT !.calls = Append(@, name)]
CallFailed(w, op, c) == [w EXCEPT !.failed[op] = c]
Return(w, op)        == [w EXCEPT !.ret[op] = "returned", !.pc = AfterOp(w, op)]
Raise(w, op, exc)    == [w EXCEPT !.ret[op] = exc, !.pc = "crashed"]

(***************************************************************************)
(* calculate_md5(file_path)                                                *)
(***************************************************************************)
calculate_md5(fsv, file_path) ==
    IF file_path \in DOMAIN fsv
    THEN [raised |-> "", md5 |-> md5_of_bytes(fsv[file_path], ChunkSize)]
    ELSE [raised |-> "FileNotFoundError", md5 |-> ""]

(***************************************************************************)
(* The boto3 client calls                                                  *)
(***************************************************************************)
NoMeta == [k \in {} |-> ""]

\* variant: the bytes are written before the failure is reported, without ExtraArgs
s3_upload_file_partial(w, file_path, s3_key, metadata) ==
    IF file_path \notin DOMAIN w.fs
    THEN [raised |-> "FileNotFoundError", objects |-> w.objects]
    ELSE IF w.status # "ok"
    THEN [raised |-> "S3UploadFailedError",
          objects |-> (s3_key :> [data |-> w.fs[file_path], meta |-> NoMeta]) @@ w.objects]
    ELSE [raised |-> "",
          objects |-> (s3_key :> [data |-> w.fs[file_path], meta |-> metadata]) @@ w.objects]

\* s3_client.upload_file(file_path, bucket_name, s3_key, ExtraArgs={'Metadata': metadata})
s3_upload_file(w, file_path, s3_key, metadata) ==
    IF file_path \notin DOMAIN w.fs
    THEN [raised |-> "FileNotFoundError", objects |-> w.objects]
    ELSE IF w.status # "ok"
    THEN [raised |-> "S3UploadFailedError", objects |-> w.objects]
    ELSE [raised |-> "",
          objects |-> (s3_key :> [data |-> w.fs[file_path], meta |-> metadata]) @@ w.objects]

(***************************************************************************)
(* S3FileService.upload_file_to_s3                                         *)
(***************************************************************************)
S3FileService_upload_md5(w) ==
    LET w1 == Log(w, "Uploading")
        d  == calculate_md5(w.fs, w.settings.file_path)
    IN  IF d.raised # ""
        THEN Raise(Log(CallFailed(w1, "upload", "open"), "File not found."),
                   "upload", d.raised)
        ELSE [w1 EXCEPT !.local_md5 = d.md5,
                        !.hashed = w.fs[w.settings.file_path],
                        !.pc = "upload:put"]

\* variant: upload_file called without ExtraArgs
S3FileService_upload_put_no_metadata(w) ==
    LET r  == s3_upload_file(w, w.settings.file_path, w.settings.key, NoMeta)
        w1 == [Call(w, "upload_file") EXCEPT !.objects = r.objects]
    IN  CASE r.raised = "" ->
               Return(Log(w1, "File uploaded successfully."), "upload")
          [] r.raised = "FileNotFoundError" ->
               Raise(Log(CallFailed(w1, "upload", "upload_file"), "File not found."),
                     "upload", r.raised)
          [] r.raised = "S3UploadFailedError" ->
               Raise(Log(CallFailed(w1, "upload", "upload_file"), "S3 upload failed"),
                     "upload", r.raised)
          [] OTHER ->
               Raise(Log(CallFailed(w1, "upload", "upload_file"), "An error occurred"),
                     "upload", r.raised)

S3FileService_upload_put(w) ==
    LET r  == s3_upload_file(w, w.settings.file_path, w.settings.key,
                             [k \in {"md5"} |-> w.local_md5])
        w1 == [Call(w, "upload_file") EXCEPT !.objects = r.objects]
    IN  CASE r.raised = "" ->
               Return(Log(w1, "File uploaded successfully."), "upload")
          [] r.raised = "FileNotFoundError" ->
               Raise(Log(CallFailed(w1, "upload", "upload_file"), "File not found."),
                     "upload", r.raised)
          [] r.raised = "S3UploadFailedError" ->
               Raise(Log(CallFailed(w1, "upload", "upload_file"), "S3 upload failed"),
                     "upload", r.raised)
          [] OTHER ->
               Raise(Log(CallFailed(w1, "upload", "upload_file"), "An error occurred"),
                     "upload", r.raised)

(***************************************************************************)
(* scripts/upload_file_to_s3.py: upload_file_to_s3                         *)
(***************************************************************************)
script_upload_md5(w) ==
    LET w1 == Log(w, "Uploading")
        d  == calculate_md5(w.fs, w.settings.file_path)
    IN  IF d.raised # ""
        THEN Return(Log(CallFailed(w1, "upload", "open"), "File not found."), "upload")
        ELSE [w1 EXCEPT !.local_md5 = d.md5,
                        !.hashed = w.fs[w.settings.file_path],
                        !.pc = "upload:put"]

script_upload_put(w) ==
    LET r  == s3_upload_file(w, w.settings.file_path, w.settings.key,
                             [k \in {"md5"} |-> w.local_md5])
        w1 == [Call(w, "upload_file") EXCEPT !.objects = r.objects]
    IN  CASE r.raised = "" ->
               Return(Log(w1, "File uploaded successfully."), "upload")
          [] r.raised = "FileNotFoundError" ->
               Return(Log(CallFailed(w1, "upload", "upload_file"), "File not found."),
                      "upload")
          [] r.raised = "S3UploadFailedError" ->
               Return(Log(CallFailed(w1, "upload", "upload_file"), "S3 Upload Failed"),
                      "upload")
          [] OTHER ->
               Return(Log(CallFailed(w1, "upload", "upload_file"), "Unexpected error"),
                      "upload")

\* the botocore error code the bucket answers a call with, "" when it lets it through
bucket_error(w) == IF w.status = "ok" THEN "" ELSE w.status

\* s3_client.download_file(bucket_name, s3_key, filename)
s3_download_file(w, s3_key, filename) ==
    IF bucket_error(w) # "" THEN [raised |-> bucket_error(w), fs |-> w.fs]
    ELSE IF s3_key \notin DOMAIN w.objects THEN [raised |-> "404", fs |-> w.fs]
    ELSE [raised |-> "", fs |-> (filename :> w.objects[s3_key].data) @@ w.fs]

\* s3_client.head_object(Bucket=bucket_name, Key=s3_key)
s3_head_object(w, s3_key) ==
    IF bucket_error(w) # "" THEN [raised |-> bucket_error(w), Metadata |-> NoMeta]
    ELSE IF s3_key \notin DOMAIN w.objects THEN [raised |-> "404", Metadata |-> NoMeta]
    ELSE [raised |-> "", Metadata |-> w.objects[s3_key].meta]

ClientError(code) == "ClientError:" \o code

(***************************************************************************)
(* S3FileService.download_file_from_s3                                     *)
(***************************************************************************)
S3FileService_download_head(w) ==
    LET e  == bucket_error(w)
        w1 == Call(w, "head_bucket")
        w2 == CallFailed(w1, "download", "head_bucket:" \o e)
    IN  CASE e = ""    -> [w1 EXCEPT !.pc = "download:get"]
          [] e = "404" -> Raise(Log(Log(w2, "Bucket does not exist."), "Unexpected error"),
                                "download", ClientError(e))
          [] e = "403" -> Raise(Log(Log(w2, "Access denied to bucket."), "Unexpected error"),
                                "download", ClientError(e))
          [] OTHER     -> Raise(Log(w2, "Unexpected error"), "download", ClientError(e))

\* variant: the object's bytes are appended to a file already there
S3FileService_download_get_append(w) ==
    LET dest == os_path_join(w.settings.download_dir, os_path_basename(w.settings.key))
        r    == s3_download_file(w, w.settings.key, dest)
        old  == IF dest \in DOMAIN w.fs THEN w.fs[dest] ELSE <<>>
        w1   == [Call(Log(w, "Downloading"), "download_file") EXCEPT
                     !.fs = IF r.raised = "" THEN (dest :> (old \o r.fs[dest])) @@ w.fs
                                             ELSE r.fs]
        w2   == CallFailed(w1, "download", "download_file:" \o r.raised)
    IN  CASE r.raised = ""    -> Return(Log(w1, "File downloaded successfully"), "download")
          [] r.raised = "404" -> Raise(Log(Log(w2, "File does not exist in S3 bucket."),
                                           "Unexpected error"),
                                       "download", ClientError(r.raised))
          [] OTHER            -> Raise(Log(w2, "Unexpected error"),
                                       "download", ClientError(r.raised))

S3FileService_download_get(w) ==
    LET dest == os_path_join(w.settings.download_dir, os_path_basename(w.settings.key))
        r    == s3_download_file(w, w.settings.key, dest)
        w1   == [Call(Log(w, "Downloading"), "download_file") EXCEPT !.fs = r.fs]
        w2   == CallFailed(w1, "download", "download_file:" \o r.raised)
    IN  CASE r.raised = ""    -> Return(Log(w1, "File downloaded successfully"), "download")
          [] r.raised = "404" -> Raise(Log(Log(w2, "File does not exist in S3 bucket."),
                                           "Unexpected error"),
                                       "download", ClientError(r.raised))
          [] OTHER            -> Raise(Log(w2, "Unexpected error"),
                                       "download", ClientError(r.raised))

(***************************************************************************)
(* scripts/download_file_from_s3.py: download_file_from_s3                 *)
(***************************************************************************)
script_download_head(w) ==
    LET e  == bucket_error(w)
        w1 == Call(w, "head_bucket")
        w2 == CallFailed(w1, "download", "head_bucket:" \o e)
    IN  CASE e = ""    -> [w1 EXCEPT !.pc = "download:get"]
          [] e = "404" -> Return(Log(w2, "Bucket does not exist."), "download")
          [] e = "403" -> Return(Log(w2, "Access denied to bucket."), "download")
          [] OTHER     -> Return(Log(w2, "Unexpected error"), "download")

script_download_get(w) ==
    LET dest == os_path_join(w.settings.download_dir, w.settings.key)
        r    == s3_download_file(w, w.settings.key, dest)
        w1   == [Call(Log(w, "Downloading"), "download_file") EXCEPT !.fs = r.fs]
        w2   == CallFailed(w1, "download", "download_file:" \o r.raised)
    IN  CASE r.raised = ""    -> Return(Log(w1, "File downloaded successfully"), "download")
          [] r.raised = "404" -> Return(Log(w2, "File does not exist in S3 bucket."),
                                        "download")
          [] OTHER            -> Return(Log(w2, "Unexpected error"), "download")

(***************************************************************************)
(* list_files_in_s3_bucket: the paginator and the loop over its pages      *)
(***************************************************************************)
\* the most pages one listing is split into
MaxPages == 3

\* S3 lists keys in ascending order
KeyOrder == <<FlatKey, NestedKey>>

InBucket(objs, k) == k \in DOMAIN objs

\* the 'Contents' entry of an object
Content(objs, k) == [Key |-> k, Size |-> Len(objs[k].data)]

Listing(objs) ==
    LET keys == SelectSeq(KeyOrder, LAMBDA k : InBucket(objs, k))
    IN  [i \in 1..Len(keys) |-> Content(objs, keys[i])]

\* every way list_objects_v2 may cut a listing into 1..MaxPages pages, empty
\* pages (no 'Contents') included
Paginations(listing) ==
    LET L == Len(listing)
        Cuts(n) == {c \in [1..n -> 0..L] :
                        /\ c[n] = L
                        /\ \A i \in 1..(n - 1) : c[i] <= c[i + 1]}
        PagesOf(n, c) == [i \in 1..n |->
                            SubSeq(listing, (IF i = 1 THEN 0 ELSE c[i - 1]) + 1, c[i])]
    IN  UNION {{PagesOf(n, c) : c \in Cuts(n)} : n \in 1..MaxPages}

RECURSIVE path_str(_)
path_str(path) ==
    IF Len(path) = 1 THEN path[1]
    ELSE path[1] \o "/" \o path_str(Tail(path))

\* f'{obj['Key']} \t {obj['Size']} bytes \t Last Modified: ...'
listing_line(obj) == path_str(obj.Key) \o " " \o ToString(obj.Size) \o " bytes"

RECURSIVE log_page(_, _)
\* for obj in page.get('Contents', []): found = True; log the object
log_page(w, page) ==
    IF page = <<>> THEN w
    ELSE log_page([Log(w, listing_line(Head(page))) EXCEPT !.found = TRUE],
                  Tail(page))

list_start(w, pagination) ==
    [w EXCEPT !.found = FALSE, !.pages = pagination, !.page_no = 0, !.pc = "list:page"]

\* the function returns: its locals are gone
list_return(w) ==
    [Return(w, "list") EXCEPT !.pages = <<>>, !.page_no = 0, !.found = FALSE]

\* variant: found = False set inside the loop over the pages
S3FileService_list_page_reset(w) ==
    LET e  == bucket_error(w)
        w1 == [Call(w, "list_objects_v2") EXCEPT !.found = FALSE]
        w2 == CallFailed(w1, "list", "list_objects_v2:" \o e)
    IN  IF w.page_no = Len(w.pages)
        THEN list_return(IF w.found THEN w ELSE Log(w, "Bucket is empty."))
        ELSE CASE e = ""    -> [log_page(w1, w.pages[w.page_no + 1]) EXCEPT !.page_no = @ + 1]
               [] e = "404" -> Raise(Log(w2, "Bucket does not exist."), "list", ClientError(e))
               [] e = "403" -> Raise(Log(w2, "Access denied to bucket."), "list", ClientError(e))
               [] OTHER     -> Raise(Log(w2, "Client error"), "list", ClientError(e))

S3FileService_list_page(w) ==
    LET e  == bucket_error(w)
        w1 == Call(w, "list_objects_v2")
        w2 == CallFailed(w1, "list", "list_objects_v2:" \o e)
    IN  IF w.page_no = Len(w.pages)
        THEN list_return(IF w.found THEN w ELSE Log(w, "Bucket is empty."))
        ELSE CASE e = ""    -> [log_page(w1, w.pages[w.page_no + 1]) EXCEPT !.page_no = @ + 1]
               [] e = "404" -> Raise(Log(w2, "Bucket does not exist."), "list", ClientError(e))
               [] e = "403" -> Raise(Log(w2, "Access denied to bucket."), "list", ClientError(e))
               [] OTHER     -> Raise(Log(w2, "Client error"), "list", ClientError(e))

script_list_page(w) ==
    LET e  == bucket_error(w)
        w1 == Call(w, "list_objects_v2")
        w2 == CallFailed(w1, "list", "list_objects_v2:" \o e)
    IN  IF w.page_no = Len(w.pages)
        THEN list_return(IF w.found THEN w ELSE Log(w, "Bucket is empty."))
        ELSE CASE e = ""    -> [log_page(w1, w.pages[w.page_no + 1]) EXCEPT !.page_no = @ + 1]
               [] e = "404" -> Return(Log(w2, "Bucket does not exist."), "list")
               [] e = "403" -> Return(Log(w2, "Access denied to bucket."), "list")
               [] OTHER     -> Return(Log(w2, "Client error"), "list")

(***************************************************************************)
(* check__integrity (the method and the script's function read the same)   *)
(***************************************************************************)
Verified == "file integrity verified successfully."
Mismatch == "file integrity verification failed. The downloaded file may be corrupted"

\* variant: response['Metadata'].get('md5'), so a missing entry compares unequal
integrity_verdict_get(md5, Metadata) ==
    IF "md5" \in DOMAIN Metadata /\ md5 = Metadata["md5"] THEN Verified
    ELSE Mismatch

\* remote_md5 = response['Metadata']['md5'], then the comparison
integrity_verdict(md5, Metadata) ==
    IF "md5" \notin DOMAIN Metadata THEN "KeyError"
    ELSE IF md5 = Metadata["md5"] THEN Verified
    ELSE Mismatch

S3FileService_check_md5(w) ==
    LET d == calculate_md5(w.fs, verify_path(w))
    IN  IF d.raised # ""
        THEN Raise(CallFailed(w, "verify", "open"), "verify", d.raised)
        ELSE [w EXCEPT !.local_md5 = d.md5,
                       !.hashed = w.fs[verify_path(w)],
                       !.pc = "verify:head"]

S3FileService_check_head(w) ==
    LET r  == s3_head_object(w, w.settings.key)
        w1 == Call(w, "head_object")
        v  == integrity_verdict(w.local_md5, r.Metadata)
    IN  IF r.raised # ""
        THEN Raise(CallFailed(w1, "verify", "head_object:" \o r.raised),
                   "verify", ClientError(r.raised))
        ELSE IF v = "KeyError" THEN Raise(w1, "verify", v)
        ELSE Return(Log(w1, v), "verify")

script_check_md5(w)  == S3FileService_check_md5(w)
script_check_head(w) == S3FileService_check_head(w)

(***************************************************************************)
(* The initial states: an entry point about to start, some local files,    *)
(* a bucket in some condition holding objects of earlier runs or of other  *)
(* writers.                                                                *)
(***************************************************************************)
Progs == {"s3_automation", "upload_script", "download_script"}

SettingsOf(p) ==
    IF p = "s3_automation"
    THEN {[file_path |-> f, key |-> k, download_dir |-> DownloadDir] :
              f \in Paths, k \in Keys}
    ELSE {[file_path |-> DataFile, key |-> FlatKey, download_dir |-> DownloadDir]}

FirstPc(p) == IF p = "download_script" THEN StartPc("download") ELSE StartPc("upload")

InitContents == {<<>>, OneByte, Covid}

InitFiles ==
    {f \in UNION {[D -> InitContents] : D \in SUBSET Paths} :
        os_path_join(DownloadDir, FlatKey) \in DOMAIN f
            => f[os_path_join(DownloadDir, FlatKey)] = OneByte}

\* an object some other writer put: no user metadata
Foreign(data)  == [data |-> data, meta |-> NoMeta]
\* an object an earlier upload_file_to_s3 put
Uploaded(data) == [data |-> data, meta |-> [k \in {"md5"} |-> md5_of_bytes(data, ChunkSize)]]

InitBuckets ==
    { <<>>,
      FlatKey :> Foreign(Covid),
      FlatKey :> Uploaded(Covid),
      (FlatKey :> Uploaded(Covid)) @@ (NestedKey :> Foreign(OneByte)) }

Statuses == {"ok", "404", "403", "500"}

RdIdle ==
    [pc |-> "idle", bytes |-> <<>>, size |-> 0, st |-> read_start,
     reads |-> 0, consumed |-> <<>>, digest |-> ""]

Init ==
    /\ prog \in Progs
    /\ settings \in SettingsOf(prog)
    /\ pc = FirstPc(prog)
    /\ fs \in InitFiles
    /\ status \in Statuses
    /\ objects \in InitBuckets
    /\ local_md5 = ""
    /\ hashed = <<>>
    /\ pages = <<>>
    /\ page_no = 0
    /\ found = FALSE
    /\ out = <<>>
    /\ calls = <<>>
    /\ ret = [op \in Ops |-> ""]
    /\ failed = [op \in Ops |-> ""]
    /\ env = 0
    /\ rd = RdIdle

(***************************************************************************)
(* The steps of the entry points                                           *)
(***************************************************************************)
IsService == prog = "s3_automation"

ServiceUploadDigest == IsService /\ pc = "upload:md5" /\ Becomes(S3FileService_upload_md5(World))
ServiceUploadPut    == IsService /\ pc = "upload:put" /\ Becomes(S3FileService_upload_put(World))
ServiceDownloadHead == IsService /\ pc = "download:head" /\ Becomes(S3FileService_download_head(World))
ServiceDownloadGet  == IsService /\ pc = "download:get" /\ Becomes(S3FileService_download_get(World))
ServiceListPage     == IsService /\ pc = "list:page" /\ Becomes(S3FileService_list_page(World))
ServiceCheckDigest  == IsService /\ pc = "verify:md5" /\ Becomes(S3FileService_check_md5(World))
ServiceCheckHead    == IsService /\ pc = "verify:head" /\ Becomes(S3FileService_check_head(World))

ScriptUploadDigest == ~IsService /\ pc = "upload:md5" /\ Becomes(script_upload_md5(World))
ScriptUploadPut    == ~IsService /\ pc = "upload:put" /\ Becomes(script_upload_put(World))
ScriptDownloadHead == ~IsService /\ pc = "download:head" /\ Becomes(script_download_head(World))
ScriptDownloadGet  == ~IsService /\ pc = "download:get" /\ Becomes(script_download_get(World))
ScriptListPage     == ~IsService /\ pc = "list:page" /\ Becomes(script_list_page(World))
ScriptCheckDigest  == ~IsService /\ pc = "verify:md5" /\ Becomes(script_check_md5(World))
ScriptCheckHead    == ~IsService /\ pc = "verify:head" /\ Becomes(script_check_head(World))

\* paginator.paginate(Bucket=bucket_name): the backend decides the pages
ListStart ==
    /\ pc = "list:start"
    /\ \E pagination \in Paginations(Listing(objects)) :
           Becomes(list_start(World, pagination))

(***************************************************************************)
(* The environment: other processes touch the local files, the bucket's    *)
(* condition changes, while the entry point runs.                          *)
(***************************************************************************)
Running == pc \notin {"done", "crashed"}

UnchangedByEnv ==
    UNCHANGED <<prog, settings, pc, local_md5, hashed, pages, page_no, found, out, calls,
                ret, failed, rd>>

\* a file loses its last byte
EnvTruncate ==
    /\ Running /\ env < MaxEnv
    /\ \E p \in DOMAIN fs :
           /\ fs[p] # <<>>
           /\ fs' = [fs EXCEPT ![p] = SubSeq(@, 1, Len(@) - 1)]
    /\ env' = env + 1
    /\ UNCHANGED <<status, objects>>
    /\ UnchangedByEnv

\* a file is removed
EnvUnlink ==
    /\ Running /\ env < MaxEnv
    /\ \E p \in DOMAIN fs : fs' = [q \in DOMAIN fs \ {p} |-> fs[q]]
    /\ env' = env + 1
    /\ UNCHANGED <<status, objects>>
    /\ UnchangedByEnv

\* the bucket is deleted, locked, failing, or back
EnvStatus ==
    /\ Running /\ env < MaxEnv
    /\ \E s \in Statuses \ {status} : status' = s
    /\ env' = env + 1
    /\ UNCHANGED <<fs, objects>>
    /\ UnchangedByEnv

\* another client deletes an object
EnvDelete ==
    /\ Running /\ env < MaxEnv
    /\ \E k \in DOMAIN objects : objects' = [q \in DOMAIN objects \ {k} |-> objects[q]]
    /\ env' = env + 1
    /\ UNCHANGED <<fs, status>>
    /\ UnchangedByEnv

Next ==
    \/ ServiceUploadDigest \/ ServiceUploadPut
    \/ ServiceDownloadHead \/ ServiceDownloadGet
    \/ ServiceListPage
    \/ ServiceCheckDigest \/ ServiceCheckHead
    \/ ScriptUploadDigest \/ ScriptUploadPut
    \/ ScriptDownloadHead \/ ScriptDownloadGet
    \/ ScriptListPage
    \/ ScriptCheckDigest \/ ScriptCheckHead
    \/ ListStart
    \/ EnvTruncate \/ EnvUnlink \/ EnvStatus \/ EnvDelete

Spec == Init /\ [][Next]_vars

(***************************************************************************)
(* calculate_md5's read loop, one read() per step, over files of every     *)
(* length up to MaxFileLen and several chunk sizes.                        *)
(***************************************************************************)
MaxFileLen == 70

ChunkSizes == {1, 2, 3, BlockLen - 1, BlockLen, BlockLen + 1, ChunkSize}

\* the first n bytes of the sample file repeated over and over
SampleBytes(n) == [i \in 1..n |-> Covid[((i - 1) % Len(Covid)) + 1]]

InitDigest ==
    /\ prog = "calculate_md5"
    /\ settings = [file_path |-> DataFile, key |-> FlatKey, download_dir |-> DownloadDir]
    /\ pc = "done"
    /\ fs = <<>>
    /\ status = "ok"
    /\ objects = <<>>
    /\ local_md5 = ""
    /\ hashed = <<>>
    /\ pages = <<>>
    /\ page_no = 0
    /\ found = FALSE
    /\ out = <<>>
    /\ calls = <<>>
    /\ ret = [op \in Ops |-> ""]
    /\ failed = [op \in Ops |-> ""]
    /\ env = 0
    /\ \E n \in 0..MaxFileLen, size \in ChunkSizes :
           rd = [pc |-> "reading", bytes |-> SampleBytes(n), size |-> size,
                 st |-> read_start, reads |-> 0, consumed |-> <<>>, digest |-> ""]

UnchangedByDigest ==
    UNCHANGED <<prog, settings, pc, fs, status, objects, local_md5, hashed, pages,
                page_no, found, out, calls, ret, failed, env>>

\* chunk = f.read(size), and hash_md5.update(chunk) unless it is b''
DigestRead ==
    /\ rd.pc = "reading" /\ ~rd.st.eof
    /\ rd' = [rd EXCEPT !.st = read_step(rd.bytes, rd.st, rd.size),
                        !.reads = @ + 1,
                        !.consumed = @ \o file_read(rd.bytes, rd.st.pos, rd.size)]
    /\ UnchangedByDigest

\* return hash_md5.hexdigest()
DigestReturn ==
    /\ rd.pc = "reading" /\ rd.st.eof
    /\ rd' = [rd EXCEPT !.pc = "done", !.digest = md5_hexdigest(rd.st.ctx)]
    /\ UnchangedByDigest

NextDigest == DigestRead \/ DigestReturn

SpecDigest == InitDigest /\ [][NextDigest]_vars

(***************************************************************************)
(* Running one operation to its end, as a caller that invokes it alone     *)
(***************************************************************************)
OpPcs(op) ==
    CASE op = "upload"   -> {"upload:md5", "upload:put"}
      [] op = "download" -> {"download:head", "download:get"}
      [] op = "list"     -> {"list:start", "list:page"}
      [] op = "verify"   -> {"verify:md5", "verify:head"}

\* the step the entry point takes from w
Step(w, pagination) ==
    LET service == w.prog = "s3_automation"
    IN  CASE w.pc = "upload:md5" ->
               IF service THEN S3FileService_upload_md5(w) ELSE script_upload_md5(w)
          [] w.pc = "upload:put" ->
               IF service THEN S3FileService_upload_put(w) ELSE script_upload_put(w)
          [] w.pc = "download:head" ->
               IF service THEN S3FileService_download_head(w) ELSE script_download_head(w)
          [] w.pc = "download:get" ->
               IF service THEN S3FileService_download_get(w) ELSE script_download_get(w)
          [] w.pc = "list:start" -> list_start(w, pagination)
          [] w.pc = "list:page" ->
               IF service THEN S3FileService_list_page(w) ELSE script_list_page(w)
          [] w.pc = "verify:md5" ->
               IF service THEN S3FileService_check_md5(w) ELSE script_check_md5(w)
          [] w.pc = "verify:head" ->
               IF service THEN S3FileService_check_head(w) ELSE script_check_head(w)

\* the caller invokes op
Invoke(w, op) == [w EXCEPT !.pc = StartPc(op), !.ret[op] = "", !.failed[op] = ""]

RECURSIVE RunOp(_, _, _)
\* op runs until it returns or raises, nothing else acting meanwhile
RunOp(w, op, pagination) ==
    IF w.pc \in OpPcs(op) THEN RunOp(Step(w, pagination), op, pagination) ELSE w

(***************************************************************************)
(* Properties                                                              *)
(***************************************************************************)
Count(seq, x) == Cardinality({i \in 1..Len(seq) : seq[i] = x})

\* hashlib.md5(bytes).hexdigest(): the whole byte sequence hashed by one update
md5_whole(bytes) == md5_hexdigest(md5_update(hashlib_md5, bytes))

CeilDiv(a, b) == (a + b - 1) \div b

\* where download_file_from_s3 writes the object
download_dest(w) ==
    IF w.prog = "s3_automation"
    THEN os_path_join(w.settings.download_dir, os_path_basename(w.settings.key))
    ELSE os_path_join(w.settings.download_dir, w.settings.key)

\* the object at key k carries the digest of the bytes stored in it
StoredDigestMatches(objs, k) ==
    /\ k \in DOMAIN objs
    /\ "md5" \in DOMAIN objs[k].meta
    /\ objs[k].meta["md5"] = md5_whole(objs[k].data)

\* C1: when the verification step starts after a successful download and the
\* downloaded file does not hold the bytes stored in the object (it was
\* truncated, or removed), the verification never prints 'verified', and if it
\* returns normally it has printed the mismatch message.
C1_CorruptDownloadNeverVerified ==
    (/\ pc = StartPc("verify")
     /\ ret["download"] = "returned" /\ failed["download"] = ""
     /\ settings.key \in DOMAIN objects
     /\ \/ download_dest(World) \notin DOMAIN fs
        \/ fs[download_dest(World)] # objects[settings.key].data)
    => LET w == RunOp(World, "verify", <<>>)
       IN  /\ Count(w.out, Verified) = Count(out, Verified)
           /\ w.ret["verify"] = "returned" => Count(w.out, Mismatch) > Count(out, Mismatch)

\* C2: when head_bucket answers that the bucket does not exist,
\* download_file_from_s3 raises that error to its caller and never issues
\* download_file.
C2_MissingContainerRaises ==
    failed["download"] = "head_bucket:404"
        => /\ ret["download"] = ClientError("404")
           /\ Count(calls, "download_file") = 0

\* C3: when head_object succeeds and the object's metadata has no "md5" entry,
\* check__integrity ends by raising KeyError: it prints neither the 'verified' nor
\* the 'verification failed' message and does not return normally.
C3_MissingMd5IsKeyError ==
    [][ /\ (pc = "verify:head" /\ pc' # pc /\ status = "ok"
              /\ settings.key \in DOMAIN objects
              /\ "md5" \notin DOMAIN objects[settings.key].meta)
            => (ret'["verify"] = "KeyError" /\ pc' = "crashed" /\ out' = out)
        /\ ret'["verify"] = "KeyError"
            => (Count(out', Verified) = 0 /\ Count(out', Mismatch) = 0) ]_vars

C3_Witness ==
    /\ ret["verify"] = "KeyError"
    /\ failed["verify"] = ""
    /\ Count(calls, "head_object") = 1

\* C4: round trip.  In s3_automation, once upload and download have returned and
\* nothing else has touched the files or the bucket, the downloaded file holds
\* the stored bytes, check__integrity on the downloaded file gives 'verified',
\* and the verification main() runs prints 'verified'.
C4_RoundTripVerifies ==
    (prog = "s3_automation" /\ env = 0
        /\ ret["upload"] = "returned" /\ ret["download"] = "returned")
    => /\ download_dest(World) \in DOMAIN fs
       /\ settings.key \in DOMAIN objects
       /\ fs[download_dest(World)] = objects[settings.key].data
       /\ integrity_verdict(calculate_md5(fs, download_dest(World)).md5,
                            objects[settings.key].meta) = Verified
       /\ ret["verify"] # "" => (ret["verify"] = "returned" /\ out[Len(out)] = Verified)

\* upload data/covid_data.csv holding b"covid,data\n1,2\n" as covid_data.csv,
\* download it, verify: the stored md5 is the MD5 of those bytes
C4_Witness ==
    /\ prog = "s3_automation" /\ env = 0 /\ pc = "done"
    /\ settings.file_path = DataFile /\ settings.key = FlatKey
    /\ fs[DataFile] = Covid
    /\ objects[FlatKey].meta["md5"] = "af813c28448423fda43496832dc58ca7"
    /\ fs[os_path_join(DownloadDir, FlatKey)] = Covid
    /\ out[Len(out)] = Verified

\* C5: an operation in which a backend or file-system call failed does not
\* return normally: the failure is raised to the caller.
C5_FailuresAreRaised ==
    \A op \in Ops : failed[op] # "" => ret[op] \notin {"", "returned"}

\* C6: upload is all or nothing.  A step of upload_file_to_s3 either leaves the
\* bucket as it was, or the upload returned without a failed call and the key
\* holds the file's bytes together with {"md5": the digest computed}; a failed
\* upload changes nothing in the bucket.
C6_UploadAtomic ==
    [][ (pc \in OpPcs("upload") /\ pc' # pc)
          => \/ objects' = objects
             \/ /\ failed'["upload"] = "" /\ ret'["upload"] = "returned"
                /\ objects' = (settings.key :> [data |-> fs[settings.file_path],
                                                meta |-> [k \in {"md5"} |-> local_md5]])
                              @@ objects ]_vars

C6_Witness ==
    /\ failed["upload"] = "upload_file"
    /\ ret["upload"] # ""
    /\ settings.key \notin DOMAIN objects

\* what a run of op appended to the messages of w
Printed(w, after) == SubSeq(after.out, Len(w.out) + 1, Len(after.out))

SecondRunSame(w, op, pagination) ==
    LET w1 == RunOp(Invoke(w, op), op, pagination)
        w2 == RunOp(Invoke(w1, op), op, pagination)
    IN  /\ w2.fs = w1.fs
        /\ w2.objects = w1.objects
        /\ w2.ret[op] = w1.ret[op]
        /\ w2.failed[op] = w1.failed[op]
        /\ Printed(w1, w2) = Printed(w, w1)

\* C7: each operation is idempotent.  From any state in which an entry point is
\* about to invoke an operation, invoking it twice in a row (same arguments,
\* files and bucket touched by nothing else) leaves the same objects and
\* metadata, the same local files, the same outcome and the same messages as
\* invoking it once.
C7_Idempotent ==
    \A op \in Ops :
        pc = StartPc(op)
            => \A pagination \in (IF op = "list" THEN Paginations(Listing(objects))
                                                 ELSE {<<>>}) :
                   SecondRunSame(World, op, pagination)

\* a download that overwrites an older local file with the object's bytes
C7_Witness ==
    /\ ret["download"] = "returned" /\ failed["download"] = ""
    /\ ret["upload"] = "returned"
    /\ settings.file_path = download_dest(World)
    /\ fs[download_dest(World)] # <<>>

EmptySignal == "Bucket is empty."

\* C8: 'Bucket is empty.' is logged only by the step that ends a listing, once
\* every page has been consumed, and at most once; that step returns normally
\* and logs it exactly when no page held an object.  A listing in which a call
\* failed never logs it.
C8_EmptySignal ==
    [][ /\ Count(out', EmptySignal) > Count(out, EmptySignal)
            => /\ pc = "list:page" /\ page_no = Len(pages)
               /\ Count(out, EmptySignal) = 0
               /\ Count(out', EmptySignal) = 1
        /\ (pc = "list:page" /\ page_no = Len(pages) /\ pc' # pc)
            => /\ ret'["list"] = "returned" /\ failed'["list"] = ""
               /\ Count(out', EmptySignal) = 1 <=> \A i \in 1..Len(pages) : pages[i] = <<>>
        /\ failed'["list"] # "" => Count(out', EmptySignal) = 0 ]_vars

\* an empty bucket listed in several pages
C8_Witness ==
    /\ ret["list"] = "returned"
    /\ Count(out, EmptySignal) = 1
    /\ failed["list"] = ""
    /\ Count(calls, "list_objects_v2") >= 2

\* C9: calculate_md5's loop reads the file's bytes once each, in order, in
\* chunks of the chosen size, stops at the first empty read, and returns the
\* digest of the whole byte sequence, whatever the chunk size.
C9_ChunkedDigestIsWholeDigest ==
    rd.pc \in {"reading", "done"} =>
        /\ rd.consumed = SubSeq(rd.bytes, 1, rd.st.pos)
        /\ rd.st.ctx.n = rd.st.pos
        /\ ~rd.st.eof => /\ rd.reads = CeilDiv(rd.st.pos, rd.size)
                         /\ (rd.st.pos % rd.size = 0 \/ rd.st.pos = Len(rd.bytes))
        /\ rd.st.eof => /\ rd.st.pos = Len(rd.bytes)
                        /\ rd.reads = CeilDiv(Len(rd.bytes), rd.size) + 1
        /\ rd.pc = "done" => /\ rd.st.eof
                             /\ rd.digest = md5_whole(rd.bytes)
                             /\ rd.digest = md5_of_bytes(rd.bytes, ChunkSize)

\* 70 bytes read three at a time: 24 chunks and the empty read; the digest is
\* the one hashlib.md5 gives for these bytes
C9_Witness ==
    /\ rd.pc = "done"
    /\ rd.size = 3
    /\ rd.bytes = SampleBytes(70)
    /\ rd.reads = 25
    /\ rd.digest = "ade80deb79962e528be11b22ee45a295"

\* C10 as stated: every successful upload leaves at its key an object whose md5
\* metadata is the digest of the bytes stored, even when the local file is
\* modified between the digest computation and the transfer.
C10_StoredDigestMatchesStoredBytes ==
    [][ (pc = "upload:put" /\ ret'["upload"] = "returned" /\ failed'["upload"] = "")
          => StoredDigestMatches(objects', settings.key) ]_vars

\* What upload does guarantee: every successful upload leaves at its key an
\* object whose md5 metadata is the digest of the bytes calculate_md5 read; it is
\* the digest of the bytes stored whenever the file still held those bytes at
\* the transfer.
UploadStoresDigestOfBytesRead ==
    [][ (pc = "upload:put" /\ ret'["upload"] = "returned" /\ failed'["upload"] = "")
          => /\ settings.key \in DOMAIN objects'
             /\ "md5" \in DOMAIN objects'[settings.key].meta
             /\ objects'[settings.key].meta["md5"] = md5_whole(hashed)
             /\ settings.file_path \in DOMAIN fs
             /\ objects'[settings.key].data = fs[settings.file_path]
             /\ hashed = fs[settings.file_path]
                    => StoredDigestMatches(objects', settings.key) ]_vars

=============================================================================
